---- MODULE Spec2Model ----
(***************************************************************************)
(* A model of @st-lib/form (src/src/index.ts): createForm builds a tree of *)
(* field closures over a mutable backing value, getFormData extracts and   *)
(* validates a plain data object from such a tree.                         *)
(*                                                                         *)
(* JavaScript values are records [k, s, n]: k is the kind, s a string      *)
(* payload, n an integer payload.  Objects and arrays live in a heap and   *)
(* are referred to by reference (k = "ref"), so that in-place mutation and *)
(* aliasing are what they are in the program.  A closure is modelled by    *)
(* the variables it captured.                                              *)
(***************************************************************************)
EXTENDS Integers, Sequences, FiniteSets, TLC

VARIABLES
    scheme,   \* the scheme given to createForm
    heap,     \* the objects and arrays of the program, by reference
    heap0,    \* the heap as it was when the tree was built (history)
    data,     \* the value the caller holds as form data (useState's data)
    fields,   \* the field tree returned by the last createForm(scheme)(data, setData)
    built,    \* "ok", or the error the last build raised
    last,     \* the last call made on the tree: its arguments, result and setData calls
    nops      \* the number of mutating calls made so far

vars == <<scheme, heap, heap0, data, fields, built, last, nops>>

----------------------------------------------------------------------------
(* Bounds of the model *)

\* Mutating calls (writes, array helpers, rebuilds) in one behaviour.
MaxOps == 2
\* Numbers are the integers -MaxNum..MaxNum.
MaxNum == 12
\* The longest backing array a helper may produce.
MaxLen == 4

----------------------------------------------------------------------------
(* JavaScript values *)

Undef == [k |-> "undefined", s |-> "", n |-> 0]
Null == [k |-> "null", s |-> "", n |-> 0]
\* An index of an array that holds no element (a hole of a sparse array).
Hole == [k |-> "hole", s |-> "", n |-> 0]
Str(s) == [k |-> "string", s |-> s, n |-> 0]
Num(n) == [k |-> "number", s |-> "", n |-> n]
Bool(b) == [k |-> "boolean", s |-> "", n |-> IF b THEN 1 ELSE 0]
\* new Boolean(b)
BoolObj(b) == [k |-> "Boolean", s |-> "", n |-> IF b THEN 1 ELSE 0]
\* new Date(t), t a valid time value
DateV(t) == [k |-> "date", s |-> "", n |-> t]
\* new Date(NaN)
InvalidDate == [k |-> "date", s |-> "Invalid Date", n |-> 0]
\* A File object, by identity.
FileV(id) == [k |-> "file", s |-> "", n |-> id]
\* A reference to an object or array of the heap.
Ref(r) == [k |-> "ref", s |-> "", n |-> r]

NumRange == (0 - MaxNum)..MaxNum

Digit(d) ==
    CASE d = 0 -> "0" [] d = 1 -> "1" [] d = 2 -> "2" [] d = 3 -> "3"
      [] d = 4 -> "4" [] d = 5 -> "5" [] d = 6 -> "6" [] d = 7 -> "7"
      [] d = 8 -> "8" [] d = 9 -> "9"

RECURSIVE NatToString(_)
NatToString(n) ==
    IF n < 10 THEN Digit(n) ELSE NatToString(n \div 10) \o Digit(n % 10)

\* Number.prototype.toString / String(n) of an integer.
NumToString(n) == IF n < 0 THEN "-" \o NatToString(0 - n) ELSE NatToString(n)

\* String(date): a text that is not a number string.
DateToString(t) == "Date " \o NumToString(t)

\* Date.parse of a string that is not a number string: one ISO text parses.
DateParse(s) ==
    IF s = "1970-01-01T00:00:00.005Z" THEN DateV(5) ELSE InvalidDate

(* The predicates imported from @st-lib/is (index.ts line 1). *)
isString(v) == v.k = "string"
isNumber(v) == v.k = "number"
\* A Date object holding a valid time.
isDate(v) == v.k = "date" /\ v.s = ""
\* A string that is the decimal text of a number.
isNumberString(v) == v.k = "string" /\ \E n \in NumRange : NumToString(n) = v.s

\* Unary plus on a number string.
ToNumber(s) == CHOOSE n \in NumRange : NumToString(n) = s

isFile(v) == v.k = "file"

\* date(inp)
date(inp) ==
    IF isDate(inp) THEN inp
    ELSE LET o == IF isNumber(inp) THEN DateV(inp.n)
                  ELSE IF isNumberString(inp) THEN DateV(ToNumber(inp.s))
                  ELSE IF isString(inp) THEN DateParse(inp.s)
                  ELSE Null
         IN  IF isDate(o) THEN o ELSE Null

----------------------------------------------------------------------------
(* Paths *)

Key(key) == [key |-> key, idx |-> 0 - 1]
Idx(i) == [key |-> "", idx |-> i]
IsIdx(seg) == seg.idx >= 0

SegToString(seg) == IF IsIdx(seg) THEN NumToString(seg.idx) ELSE seg.key

\* path.join('.')
RECURSIVE JoinPath(_)
JoinPath(path) ==
    IF Len(path) = 0 THEN ""
    ELSE IF Len(path) = 1 THEN SegToString(path[1])
    ELSE SegToString(path[1]) \o "." \o JoinPath(Tail(path))

----------------------------------------------------------------------------
(* The heap *)

\* An object or array is [kind, o, a]: o its named properties (a function
\* from the keys it has), a its elements.
NoProps == [key \in {} |-> Undef]
\* {} and []
NewObj == [kind |-> "obj", o |-> NoProps, a |-> <<>>]
NewArr == [kind |-> "arr", o |-> NoProps, a |-> <<>>]
ObjOf(props) == [kind |-> "obj", o |-> props, a |-> <<>>]
ArrOf(elems) == [kind |-> "arr", o |-> NoProps, a |-> elems]

\* v[key], undefined when v has no such property.
ReadKey(h, r, key) == IF key \in DOMAIN h[r].o THEN h[r].o[key] ELSE Undef

\* typeof value === 'object' && null != value, for the values the model
\* places under an object scheme (never a Date, File or Boolean object).
IsObject(v) == v.k = "ref"
\* Array.isArray(value)
IsArray(h, v) == v.k = "ref" /\ h[v.n].kind = "arr"

RECURSIVE Holes(_)
Holes(n) == IF n <= 0 THEN <<>> ELSE <<Hole>> \o Holes(n - 1)

\* v[i] of an array, undefined beyond its end and at a hole.
ReadIdx(h, r, i) ==
    IF i < Len(h[r].a) /\ h[r].a[i + 1].k # "hole" THEN h[r].a[i + 1] ELSE Undef

\* v[key] = value / v[index] = value
WriteSlot(h, r, seg, val) ==
    IF IsIdx(seg)
    THEN LET a == h[r].a
             i == seg.idx
         IN  IF i < Len(a)
             THEN [h EXCEPT ![r].a[i + 1] = val]
             ELSE [h EXCEPT ![r].a = a \o Holes(i - Len(a)) \o <<val>>]
    ELSE [h EXCEPT ![r].o = (seg.key :> val) @@ h[r].o]

ReadSlot(h, r, seg) ==
    IF IsIdx(seg) THEN ReadIdx(h, r, seg.idx) ELSE ReadKey(h, r, seg.key)

----------------------------------------------------------------------------
(* Schemes: a scalar tag, a one-element array, a key-to-scheme mapping.     *)
(* keys is the enumeration order of a mapping, sub the schemes in that      *)
(* order (for an array scheme: its elements).                               *)

Tag(tag) == [t |-> "tag", tag |-> tag, keys |-> <<>>, sub |-> <<>>]
ArrayOf(elem) == [t |-> "array", tag |-> "", keys |-> <<>>, sub |-> <<elem>>]
\* The scheme [] : its element type is undefined.
EmptyArrayScheme == [t |-> "array", tag |-> "", keys |-> <<>>, sub |-> <<>>]
ObjectOf(keys, sub) == [t |-> "object", tag |-> "", keys |-> keys, sub |-> sub]
\* null or undefined where a scheme is expected.
NoScheme == [t |-> "undefined", tag |-> "", keys |-> <<>>, sub |-> <<>>]

ScalarTags == {"string", "string?", "number", "number?", "boolean", "boolean?",
               "date", "date?", "file", "file?"}

\* Well-formed: leaves among the ten tags, mappings, one-element arrays.
RECURSIVE WellFormed(_)
WellFormed(type) ==
    CASE type.t = "tag" -> type.tag \in ScalarTags
      [] type.t = "array" -> Len(type.sub) = 1 /\ WellFormed(type.sub[1])
      [] type.t = "object" ->
            \A i \in 1..Len(type.sub) : WellFormed(type.sub[i])
      [] OTHER -> FALSE

----------------------------------------------------------------------------
(* Fields.  A setter closure is the chain of slots it writes, innermost    *)
(* first: <<[r, seg], ...>> stands for                                      *)
(*    value => { r1[seg1] = value; (r2[seg2] = r1; (... setData(rn))) }     *)

NoField == [type |-> "none"]
HoleField == [type |-> "hole"]

\* createScalarField: the closure's captured type, path, required, value, setValue.
createScalarField(type, path, required, value, setValue) ==
    [type |-> type, path |-> path, required |-> required, value |-> value,
     set |-> setValue]

Threw(msg, h) == [err |-> TRUE, msg |-> msg, f |-> NoField, h |-> h]
Built(f, h) == [err |-> FALSE, msg |-> "", f |-> f, h |-> h]

\* The stored value of a 'string' field (createField, line 221).
StringValue(value) ==
    IF isString(value) THEN value
    ELSE IF isNumber(value) THEN Str(NumToString(value.n))
    ELSE IF isDate(value) THEN Str(DateToString(value.n))
    ELSE Null

\* The stored value of a 'number' field: a string buffer (line 224).
NumberValue(value) ==
    IF isNumber(value) THEN Str(NumToString(value.n))
    ELSE IF isString(value) THEN value
    ELSE Null

\* The stored value of a 'boolean' field (line 227).
BooleanValue(value) ==
    IF value.k = "boolean" THEN value
    ELSE IF value.k = "Boolean" THEN Bool(value.n = 1)
    ELSE Null

\* The stored value of a 'file' field (line 233).
FileValue(value) == IF isFile(value) THEN value ELSE Null

RECURSIVE createField(_, _, _, _, _)
RECURSIVE createObjectFieldLoop(_, _, _, _, _, _, _)
RECURSIVE createArrayFieldLoop(_, _, _, _, _, _, _)

\* createObjectField's for (const key in type) loop, from the i-th key on.
createObjectFieldLoop(type, path, v, setValue, h, i, o) ==
    IF i > Len(type.keys)
    THEN Built([type |-> "object", keys |-> type.keys, sub |-> o], h)
    ELSE LET key == type.keys[i]
             r == createField(type.sub[i], Append(path, Key(key)), ReadKey(h, v, key),
                              <<[r |-> v, seg |-> Key(key)]>> \o setValue, h)
         IN  IF r.err THEN r
             ELSE createObjectFieldLoop(type, path, v, setValue, r.h, i + 1,
                                        Append(o, r.f))

\* Variant: a backing value that is no object is refused.
createObjectField_Strict(type, path, value, setValue, h) ==
    IF IsObject(value)
    THEN createObjectFieldLoop(type, path, value.n, setValue, h, 1, <<>>)
    ELSE Threw("unexpected field type", h)

createObjectField(type, path, value, setValue, h) ==
    LET v == IF IsObject(value) THEN value.n ELSE Len(h) + 1
        h1 == IF IsObject(value) THEN h ELSE Append(h, NewObj)
    IN  createObjectFieldLoop(type, path, v, setValue, h1, 1, <<>>)

\* Variant: the path of a sub-field counts its index from 1.
createArrayFieldLoop_PathFromOne(type, path, v, setValue, h, index, fs) ==
    IF index >= Len(h[v].a)
    THEN Built([type |-> "array", path |-> path, v |-> v, fields |-> fs,
                set |-> setValue], h)
    ELSE IF h[v].a[index + 1].k = "hole"
    THEN createArrayFieldLoop(type, path, v, setValue, h, index + 1,
                              Append(fs, HoleField))
    ELSE LET r == createField(type, Append(path, Idx(index + 1)), h[v].a[index + 1],
                              <<[r |-> v, seg |-> Idx(index)]>> \o setValue, h)
         IN  IF r.err THEN r
             ELSE createArrayFieldLoop(type, path, v, setValue, r.h, index + 1,
                                       Append(fs, r.f))

\* Variant: the setter of a sub-field writes at the end of the array as it is
\* when the field is built for it (a push), not at its index.
createArrayFieldLoop_SetterAppends(type, path, v, setValue, h, index, fs) ==
    IF index >= Len(h[v].a)
    THEN Built([type |-> "array", path |-> path, v |-> v, fields |-> fs,
                set |-> setValue], h)
    ELSE IF h[v].a[index + 1].k = "hole"
    THEN createArrayFieldLoop(type, path, v, setValue, h, index + 1,
                              Append(fs, HoleField))
    ELSE LET r == createField(type, Append(path, Idx(index)), h[v].a[index + 1],
                              <<[r |-> v, seg |-> Idx(Len(h[v].a))]>> \o setValue, h)
         IN  IF r.err THEN r
             ELSE createArrayFieldLoop(type, path, v, setValue, r.h, index + 1,
                                       Append(fs, r.f))

\* createArrayField's v.map(...), from index `index` on; map skips holes.
createArrayFieldLoop(type, path, v, setValue, h, index, fs) ==
    IF index >= Len(h[v].a)
    THEN Built([type |-> "array", path |-> path, v |-> v, fields |-> fs,
                set |-> setValue], h)
    ELSE IF h[v].a[index + 1].k = "hole"
    THEN createArrayFieldLoop(type, path, v, setValue, h, index + 1,
                              Append(fs, HoleField))
    ELSE LET r == createField(type, Append(path, Idx(index)), h[v].a[index + 1],
                              <<[r |-> v, seg |-> Idx(index)]>> \o setValue, h)
         IN  IF r.err THEN r
             ELSE createArrayFieldLoop(type, path, v, setValue, r.h, index + 1,
                                       Append(fs, r.f))

createArrayField(types, path, value, setValue, h) ==
    LET type == IF Len(types.sub) >= 1 THEN types.sub[1] ELSE NoScheme
        v == IF IsArray(h, value) THEN value.n ELSE Len(h) + 1
        h1 == IF IsArray(h, value) THEN h ELSE Append(h, NewArr)
    IN  createArrayFieldLoop(type, path, v, setValue, h1, 0, <<>>)

createField(type, path, value, setValue, h) ==
    IF type.t = "tag" /\ type.tag \in {"string", "string?"}
    THEN Built(createScalarField("string", path, type.tag = "string",
                                 StringValue(value), setValue), h)
    ELSE IF type.t = "tag" /\ type.tag \in {"number", "number?"}
    THEN Built(createScalarField("number", path, type.tag = "number",
                                 NumberValue(value), setValue), h)
    ELSE IF type.t = "tag" /\ type.tag \in {"boolean", "boolean?"}
    THEN Built(createScalarField("boolean", path, type.tag = "boolean",
                                 BooleanValue(value), setValue), h)
    ELSE IF type.t = "tag" /\ type.tag \in {"date", "date?"}
    THEN Built(createScalarField("date", path, type.tag = "date",
                                 date(value), setValue), h)
    ELSE IF type.t = "tag" /\ type.tag \in {"file", "file?"}
    THEN Built(createScalarField("file", path, type.tag = "file",
                                 FileValue(value), setValue), h)
    ELSE IF type.t = "array"
    THEN createArrayField(type, path, value, setValue, h)
    ELSE IF type.t = "object"
    THEN createObjectField(type, path, value, setValue, h)
    ELSE Threw("unexpected field type", h)

\* createForm(scheme)(data, setData): setData ends every setter chain.
createForm(sch, dat, h) == createObjectField(sch, <<>>, dat, <<>>, h)

\* Variant: a setter writes its own slot and notifies with its container,
\* without handing it to the setter above.
RunSetFrom_NoPropagate(set, i, x, h) ==
    IF i > Len(set) THEN [h |-> h, arg |-> x]
    ELSE [h |-> WriteSlot(h, set[i].r, set[i].seg, x), arg |-> Ref(set[i].r)]

\* Calling a setter closure with value x: the heap after it, and the
\* argument setData receives.
RECURSIVE RunSetFrom(_, _, _, _)
RunSetFrom(set, i, x, h) ==
    IF i > Len(set) THEN [h |-> h, arg |-> x]
    ELSE RunSetFrom(set, i + 1, Ref(set[i].r), WriteSlot(h, set[i].r, set[i].seg, x))

RunSet(set, x, h) == RunSetFrom(set, 1, x, h)

----------------------------------------------------------------------------
(* Array.prototype mutations, on the sequence of elements.  Each gives the  *)
(* array afterwards (a) and the value returned (ret, rets for splice).      *)

Max(x, y) == IF x >= y THEN x ELSE y
Min(x, y) == IF x <= y THEN x ELSE y

\* An element read out of the array: a hole reads as undefined.
Elem(e) == IF e.k = "hole" THEN Undef ELSE e

ArrayPush(a, items) == [a |-> a \o items, ret |-> Num(Len(a) + Len(items))]

ArrayUnshift(a, items) == [a |-> items \o a, ret |-> Num(Len(a) + Len(items))]

ArrayPop(a) ==
    IF Len(a) = 0 THEN [a |-> a, ret |-> Undef]
    ELSE [a |-> SubSeq(a, 1, Len(a) - 1), ret |-> Elem(a[Len(a)])]

ArrayShift(a) ==
    IF Len(a) = 0 THEN [a |-> a, ret |-> Undef]
    ELSE [a |-> Tail(a), ret |-> Elem(a[1])]

\* Array.prototype.splice(start, deleteCount, ...items); hasCount is FALSE
\* when it is called with start alone, which deletes to the end.
ArraySplice(a, start, hasCount, deleteCount, items) ==
    LET len == Len(a)
        from == IF start < 0 THEN Max(len + start, 0) ELSE Min(start, len)
        cnt == IF hasCount THEN Min(Max(deleteCount, 0), len - from)
               ELSE len - from
    IN  [a |-> SubSeq(a, 1, from) \o items \o SubSeq(a, from + cnt + 1, len),
         rets |-> SubSeq(a, from + 1, from + cnt)]

----------------------------------------------------------------------------
(* getFormData.  A result is [err, error, val, visited]: val is the plain   *)
(* data ([k |-> "object", keys, vals], [k |-> "array", vals] or a scalar),  *)
(* error the Error raised, visited the paths of the scalar fields read, in  *)
(* the order they were read.                                                *)

NoError == [name |-> "", path |-> "", got |-> Undef]
\* Error(`field ${field.path.join('.')} is required; got ${JSON.stringify(val)}`)
RequiredError(field, val) ==
    [name |-> "is required", path |-> JoinPath(field.path), got |-> val]
UnexpectedField == [name |-> "unexpected field", path |-> "", got |-> Undef]

Returned(val, visited) ==
    [err |-> FALSE, error |-> NoError, val |-> val, visited |-> visited]
Raised(error, visited) ==
    [err |-> TRUE, error |-> error, val |-> Undef, visited |-> visited]

\* The stored value createField derives from a raw backing value.
StoredValue(type, raw) ==
    CASE type = "string" -> StringValue(raw)
      [] type = "number" -> NumberValue(raw)
      [] type = "boolean" -> BooleanValue(raw)
      [] type = "date" -> date(raw)
      [] type = "file" -> FileValue(raw)

\* Variant: field() reads the backing value anew on every call.
ScalarFieldValue_Live(field, h) ==
    StoredValue(field.type, ReadSlot(h, field.set[1].r, field.set[1].seg))

\* field(): the value the scalar closure captured when it was built.
ScalarFieldValue(field, h) == field.value

\* Variant: a value that is no number string yields null, required or not.
getNumberFieldData_NoRequired(field, h, visited) ==
    LET val == ScalarFieldValue(field, h)
        seen == Append(visited, field.path)
    IN  IF isNumberString(val) THEN Returned(Num(ToNumber(val.s)), seen)
        ELSE Returned(Null, seen)

\* Variant: the string buffer is returned as it is, not parsed.
getNumberFieldData_Buffer(field, h, visited) ==
    LET val == ScalarFieldValue(field, h)
        seen == Append(visited, field.path)
    IN  IF isNumberString(val) THEN Returned(val, seen)
        ELSE IF field.required THEN Raised(RequiredError(field, val), seen)
        ELSE Returned(Null, seen)

getNumberFieldData(field, h, visited) ==
    LET val == ScalarFieldValue(field, h)
        seen == Append(visited, field.path)
    IN  IF isNumberString(val) THEN Returned(Num(ToNumber(val.s)), seen)
        ELSE IF field.required THEN Raised(RequiredError(field, val), seen)
        ELSE Returned(Null, seen)

getStringFieldData(field, h, visited) ==
    LET val == ScalarFieldValue(field, h)
        seen == Append(visited, field.path)
    IN  IF val.k \in {"null", "undefined"} /\ field.required
        THEN Raised(RequiredError(field, val), seen)
        ELSE Returned(val, seen)

getBooleanFieldData(field, h, visited) ==
    LET val == ScalarFieldValue(field, h)
        seen == Append(visited, field.path)
    IN  IF val.k \in {"null", "undefined"} /\ field.required
        THEN Raised(RequiredError(field, val), seen)
        ELSE Returned(val, seen)

getFileFieldData(field, h, visited) ==
    LET val == ScalarFieldValue(field, h)
        seen == Append(visited, field.path)
    IN  IF isFile(val) THEN Returned(val, seen)
        ELSE IF field.required THEN Raised(RequiredError(field, val), seen)
        ELSE Returned(Null, seen)

getDateFieldData(field, h, visited) ==
    LET val == ScalarFieldValue(field, h)
        seen == Append(visited, field.path)
    IN  IF isDate(val) THEN Returned(val, seen)
        ELSE IF field.required THEN Raised(RequiredError(field, val), seen)
        ELSE Returned(Null, seen)

RECURSIVE getFieldData(_, _, _)
RECURSIVE getArrayFieldDataFrom(_, _, _, _, _)
RECURSIVE getObjectFieldDataFrom(_, _, _, _, _)

\* field.map(getFieldData) from the i-th sub-field on; map skips holes.
getArrayFieldDataFrom(field, h, i, vals, visited) ==
    IF i > Len(field.fields)
    THEN Returned([k |-> "array", vals |-> vals], visited)
    ELSE IF field.fields[i].type = "hole"
    THEN getArrayFieldDataFrom(field, h, i + 1, Append(vals, Hole), visited)
    ELSE LET r == getFieldData(field.fields[i], h, visited)
         IN  IF r.err THEN r
             ELSE getArrayFieldDataFrom(field, h, i + 1, Append(vals, r.val),
                                        r.visited)

getArrayFieldData(field, h, visited) ==
    getArrayFieldDataFrom(field, h, 1, <<>>, visited)

\* Variant: the keys after a failing one are extracted too, and the first
\* error is raised at the end.
getObjectFieldDataFrom_Collect(field, h, i, vals, visited) ==
    IF i > Len(field.keys)
    THEN Returned([k |-> "object", keys |-> field.keys, vals |-> vals], visited)
    ELSE LET r == getFieldData(field.sub[i], h, visited)
             rest == getObjectFieldDataFrom(field, h, i + 1, Append(vals, r.val),
                                            r.visited)
         IN  IF r.err THEN Raised(r.error, rest.visited) ELSE rest

\* for (const key in field) o[key] = getFieldData(field[key]), from the i-th key on.
getObjectFieldDataFrom(field, h, i, vals, visited) ==
    IF i > Len(field.keys)
    THEN Returned([k |-> "object", keys |-> field.keys, vals |-> vals], visited)
    ELSE LET r == getFieldData(field.sub[i], h, visited)
         IN  IF r.err THEN r
             ELSE getObjectFieldDataFrom(field, h, i + 1, Append(vals, r.val),
                                         r.visited)

getObjectFieldData(field, h, visited) ==
    getObjectFieldDataFrom(field, h, 1, <<>>, visited)

getFieldData(field, h, visited) ==
    CASE field.type = "number" -> getNumberFieldData(field, h, visited)
      [] field.type = "string" -> getStringFieldData(field, h, visited)
      [] field.type = "boolean" -> getBooleanFieldData(field, h, visited)
      [] field.type = "date" -> getDateFieldData(field, h, visited)
      [] field.type = "file" -> getFileFieldData(field, h, visited)
      [] field.type = "array" -> getArrayFieldData(field, h, visited)
      [] field.type = "object" -> getObjectFieldData(field, h, visited)
      [] OTHER -> Raised(UnexpectedField, visited)

getFormData(fs, h) == getObjectFieldData(fs, h, <<>>)

----------------------------------------------------------------------------
(* The fields of a tree *)

RECURSIVE ScalarFields(_)
\* The scalar fields of a tree in depth-first order (keys in enumeration
\* order, elements in index order).
RECURSIVE ConcatFields(_, _)
ConcatFields(fs, i) ==
    IF i > Len(fs) THEN <<>> ELSE ScalarFields(fs[i]) \o ConcatFields(fs, i + 1)

ScalarFields(field) ==
    CASE field.type = "object" -> ConcatFields(field.sub, 1)
      [] field.type = "array" -> ConcatFields(field.fields, 1)
      [] field.type \in {"hole", "none"} -> <<>>
      [] OTHER -> <<field>>

RECURSIVE ArrayFields(_)
RECURSIVE ConcatArrays(_, _)
ConcatArrays(fs, i) ==
    IF i > Len(fs) THEN <<>> ELSE ArrayFields(fs[i]) \o ConcatArrays(fs, i + 1)

\* The array fields of a tree, outer before inner.
ArrayFields(field) ==
    CASE field.type = "object" -> ConcatArrays(field.sub, 1)
      [] field.type = "array" -> <<field>> \o ConcatArrays(field.fields, 1)
      [] OTHER -> <<>>

SeqRange(q) == {q[i] : i \in 1..Len(q)}

----------------------------------------------------------------------------
(* The closures of a field.  Each gives the heap afterwards (h), the value  *)
(* returned (ret, rets for a list) and the arguments of the setData calls   *)
(* made (calls).                                                            *)

Outcome(h, ret, rets, calls) ==
    [h |-> h, ret |-> ret, rets |-> rets, calls |-> calls]

\* The scalar closure `field`: field() and field(newValue).
ScalarFieldCall(field, hasArg, newValue, h) ==
    IF hasArg
    THEN LET r == RunSet(field.set, newValue, h)
         IN  Outcome(r.h, newValue, <<>>, <<r.arg>>)
    ELSE Outcome(h, ScalarFieldValue(field, h), <<>>, <<>>)

\* Variant: field() reads the array the parent holds now.
ArrayFieldValue_Rebound(field, h) == ReadSlot(h, field.set[1].r, field.set[1].seg)

\* field() of an array field: the array v captured when it was built.
ArrayFieldValue(field, h) == Ref(field.v)

\* The array closure `field`: field() and field(newValue).
ArrayFieldCall(field, hasArg, newValue, h) ==
    IF hasArg
    THEN LET r == RunSet(field.set, newValue, h)
         IN  Outcome(r.h, newValue, <<>>, <<r.arg>>)
    ELSE Outcome(h, ArrayFieldValue(field, h), <<>>, <<>>)

\* The deleteCount the splice helper hands to v.splice: its default is 0.
SpliceDeleteCount(hasCount, deleteCount) == IF hasCount THEN deleteCount ELSE 0

\* field.splice(from, deleteCount = 0, ...items)
fieldSplice(field, from, hasCount, deleteCount, items, h) ==
    LET o == ArraySplice(h[field.v].a, from, TRUE,
                         SpliceDeleteCount(hasCount, deleteCount), items)
        c == ArrayFieldCall(field, TRUE, Ref(field.v), [h EXCEPT ![field.v].a = o.a])
    IN  Outcome(c.h, Undef, o.rets, c.calls)

\* field.push(...items)
fieldPush(field, items, h) ==
    LET o == ArrayPush(h[field.v].a, items)
        c == ArrayFieldCall(field, TRUE, Ref(field.v), [h EXCEPT ![field.v].a = o.a])
    IN  Outcome(c.h, o.ret, <<>>, c.calls)

\* field.unshift(...items)
fieldUnshift(field, items, h) ==
    LET o == ArrayUnshift(h[field.v].a, items)
        c == ArrayFieldCall(field, TRUE, Ref(field.v), [h EXCEPT ![field.v].a = o.a])
    IN  Outcome(c.h, o.ret, <<>>, c.calls)

\* field.pop()
fieldPop(field, h) ==
    LET o == ArrayPop(h[field.v].a)
        c == ArrayFieldCall(field, TRUE, Ref(field.v), [h EXCEPT ![field.v].a = o.a])
    IN  Outcome(c.h, o.ret, <<>>, c.calls)

\* field.shift()
fieldShift(field, h) ==
    LET o == ArrayShift(h[field.v].a)
        c == ArrayFieldCall(field, TRUE, Ref(field.v), [h EXCEPT ![field.v].a = o.a])
    IN  Outcome(c.h, o.ret, <<>>, c.calls)

\* field.map(cb) / field.forEach(cb) / iteration: the paths of the sub-fields
\* handed to cb, in order (map and forEach skip holes).
RECURSIVE fieldMapFrom(_, _)
fieldMapFrom(field, i) ==
    IF i > Len(field.fields) THEN <<>>
    ELSE IF field.fields[i].type = "hole" THEN fieldMapFrom(field, i + 1)
    ELSE <<[index |-> i - 1, field |-> field.fields[i]]>> \o fieldMapFrom(field, i + 1)

fieldMap(field) == fieldMapFrom(field, 1)

----------------------------------------------------------------------------
(* The schemes and backing values the model builds forms from *)

\* { name: 'string', age: 'number?', tags: ['string'] }
PersonScheme ==
    ObjectOf(<<"name", "age", "tags">>,
             <<Tag("string"), Tag("number?"), ArrayOf(Tag("string"))>>)

\* { addr: { street: 'string', zip: 'number' }, items: [{ id: 'number', when: 'date?' }], ok: 'boolean' }
OrderScheme ==
    ObjectOf(<<"addr", "items", "ok">>,
             <<ObjectOf(<<"street", "zip">>, <<Tag("string"), Tag("number")>>),
               ArrayOf(ObjectOf(<<"id", "when">>, <<Tag("number"), Tag("date?")>>)),
               Tag("boolean")>>)

\* { doc: 'file', tags: [['number']] }
FilesScheme ==
    ObjectOf(<<"doc", "tags">>, <<Tag("file"), ArrayOf(ArrayOf(Tag("number")))>>)

\* { x: tag }
LeafScheme(tag) == ObjectOf(<<"x">>, <<Tag(tag)>>)

WellFormedSchemes ==
    {PersonScheme, OrderScheme, FilesScheme} \cup {LeafScheme(tag) : tag \in ScalarTags}

\* Schemes holding a value outside the vocabulary.
MalformedSchemes ==
    {LeafScheme("text"),
     ObjectOf(<<"x", "addr">>, <<Tag("string"), NoScheme>>),
     ObjectOf(<<"tags">>, <<EmptyArrayScheme>>),
     ObjectOf(<<"name", "tags">>, <<Tag("string"), ArrayOf(Tag("text"))>>)}

\* The raw values found at the leaves of a backing value.
RawValues ==
    {Undef, Null, Str("a"), Str(""), Str("7"), Str("-3"),
     Str("1970-01-01T00:00:00.005Z"), Num(7), Num(0), Bool(TRUE), Bool(FALSE),
     BoolObj(TRUE), DateV(5), InvalidDate, FileV(1)}

RawValues2 == {Undef, Null, Str("b"), Str("12"), Num(3)}

\* The caller's objects and arrays, with raw1 and raw2 at some leaves.
CallerHeap(raw1, raw2) ==
    << \* 1: a person
       ObjOf([name |-> raw1, age |-> raw2, tags |-> Ref(2)]),
       \* 2: its tags
       ArrOf(<<raw1, Str("b")>>),
       \* 3: an address
       ObjOf([street |-> raw1, zip |-> raw2]),
       \* 4: the items of an order
       ArrOf(<<Ref(5), Ref(6)>>),
       ObjOf([id |-> raw2, when |-> DateV(3)]),
       ObjOf([id |-> Num(2), when |-> DateV(1)]),
       \* 7: an order
       ObjOf([addr |-> Ref(3), items |-> Ref(4), ok |-> Bool(TRUE)]),
       \* 8: files, tags an array of arrays
       ObjOf([doc |-> FileV(1), tags |-> Ref(9)]),
       ArrOf(<<Ref(10), Ref(11)>>),
       ArrOf(<<Num(1), raw2>>),
       ArrOf(<<>>),
       \* 12: one leaf
       ObjOf([x |-> raw1]),
       \* 13: the wrong shape everywhere
       ObjOf([name |-> Ref(3), age |-> Ref(2), tags |-> Ref(3), addr |-> Ref(2),
              items |-> raw1, ok |-> raw2, doc |-> Ref(3), x |-> Ref(2)]) >>

\* { name: 'a', age: 7, tags: ['a', 'b'] }
PersonHeap ==
    << ObjOf([name |-> Str("a"), age |-> Num(7), tags |-> Ref(2)]),
       ArrOf(<<Str("a"), Str("b")>>) >>

\* { addr: { street: 'a' }, items: [{ id: 7, when: new Date(3) }, { id: '2' }], ok: true }
OrderHeap ==
    << ObjOf([addr |-> Ref(2), items |-> Ref(3), ok |-> Bool(TRUE)]),
       ObjOf([street |-> Str("a")]),
       ArrOf(<<Ref(4), Ref(5)>>),
       ObjOf([id |-> Num(7), when |-> DateV(3)]),
       ObjOf([id |-> Str("2")]) >>

\* { doc: file, tags: [[1, 7], []] }
FilesHeap ==
    << ObjOf([doc |-> FileV(1), tags |-> Ref(2)]),
       ArrOf(<<Ref(3), Ref(4)>>),
       ArrOf(<<Num(1), Num(7)>>),
       ArrOf(<<>>) >>

\* What the caller passes as data.
Roots ==
    {Ref(1), Ref(7), Ref(8), Ref(12), Ref(13), Ref(2), Null, Undef, Str("a"), Num(7)}

----------------------------------------------------------------------------
(* The state machine *)

NoResult == Returned(Undef, <<>>)
NoCall == [op |-> "none", path |-> <<>>, arg |-> Undef]

\* The calls that only read.
ReadOps == {"get", "aget", "map", "getFormData"}

\* The record of a call: what was called with what, what it returned, the
\* setData calls it made, the heap before it and, for a call that only
\* reads, the last call before it that did more than read.
Call(op, f, arg, args, out, res) ==
    [op |-> op, f |-> f, arg |-> arg, args |-> args,
     ret |-> out.ret, rets |-> out.rets, calls |-> out.calls, res |-> res,
     pre |-> heap,
     before |-> IF op \notin ReadOps THEN NoCall
                ELSE IF last.op \in ReadOps THEN last.before
                ELSE [op |-> last.op,
                      path |-> IF last.f.type = "none" THEN <<>> ELSE last.f.path,
                      arg |-> last.arg]]

NoArgs == [from |-> 0, hasCount |-> FALSE, count |-> 0, items |-> <<>>]

\* The state after createForm(sch)(dat, setData) on heap h.
Start(sch, dat, h) ==
    LET r == createForm(sch, dat, h)
    IN  /\ scheme = sch
        /\ data = dat
        /\ heap = r.h
        /\ heap0 = r.h
        /\ fields = r.f
        /\ built = IF r.err THEN r.msg ELSE "ok"
        /\ last = [op |-> "createForm", f |-> NoField, arg |-> Undef, args |-> NoArgs,
                   ret |-> Undef, rets |-> <<>>, calls |-> <<>>, res |-> NoResult,
                   pre |-> h, before |-> NoCall]
        /\ nops = 0

\* The forms the calls are explored on.
Init ==
    \/ \E dat \in {Ref(1), Null} : Start(PersonScheme, dat, PersonHeap)
    \/ Start(OrderScheme, Ref(1), OrderHeap)
    \/ Start(FilesScheme, Ref(1), FilesHeap)

\* Every scheme on every backing value.
InitBuild ==
    \E sch \in WellFormedSchemes \cup MalformedSchemes :
    \E dat \in Roots :
    \E raw1 \in RawValues :
    \E raw2 \in RawValues2 :
        Start(sch, dat, CallerHeap(raw1, raw2))

\* The values written through scalar fields.
ScalarInputs == {Str("z"), Num(9), Null}
\* The items pushed, unshifted and spliced in.
ItemInputs == {<<Str("c")>>, <<Str("d"), Null>>}
\* The arrays given to an array field: the elements of a new array (w).
ArrayInputs == {<<Str("w"), Str("v")>>}
\* The arguments of splice: from alone, or from, a count and items.
SpliceInputs ==
    {[from |-> from, hasCount |-> FALSE, count |-> 0, items |-> <<>>] :
        from \in {0 - 1, 0, 1}}
    \cup {[from |-> 0, hasCount |-> TRUE, count |-> 0, items |-> <<Str("c")>>],
          [from |-> 1, hasCount |-> TRUE, count |-> 1, items |-> <<>>],
          [from |-> 0, hasCount |-> TRUE, count |-> 2, items |-> <<>>],
          [from |-> 0 - 1, hasCount |-> TRUE, count |-> 2, items |-> <<Str("c")>>],
          [from |-> 3, hasCount |-> TRUE, count |-> 0 - 1, items |-> <<Null>>]}

\* A call that only reads changes nothing but the record of the last call:
\* the calls after it lead to the states they lead to without it.  So the
\* runs explored end with their first read.
Fresh == last.op \notin ReadOps

\* setData(value): the caller keeps the value as its data.
Done(c, out) ==
    /\ heap' = out.h
    /\ data' = IF Len(out.calls) > 0 THEN out.calls[Len(out.calls)] ELSE data
    /\ last' = c
    /\ UNCHANGED <<scheme, heap0, fields, built>>

\* f(x) on a scalar field
ScalarSet ==
    LET Scalars == ScalarFields(fields) IN
        /\ built = "ok" /\ Fresh /\ nops < MaxOps
        /\ \E i \in 1..Len(Scalars) : \E x \in ScalarInputs :
            LET out == ScalarFieldCall(Scalars[i], TRUE, x, heap)
            IN  Done(Call("set", Scalars[i], x, NoArgs, out, NoResult), out)
        /\ nops' = nops + 1

\* f() on a scalar field
ScalarGet ==
    LET Scalars == ScalarFields(fields) IN
        /\ built = "ok" /\ Fresh
        /\ \E i \in 1..Len(Scalars) :
            LET out == ScalarFieldCall(Scalars[i], FALSE, Undef, heap)
            IN  Done(Call("get", Scalars[i], Undef, NoArgs, out, NoResult), out)
        /\ UNCHANGED nops

\* a(w) on an array field, w a new array of the caller's, or null
ArraySet ==
    LET Arrays == ArrayFields(fields) IN
        /\ built = "ok" /\ Fresh /\ nops < MaxOps
        /\ \E i \in 1..Len(Arrays) :
            \/ \E elems \in ArrayInputs :
                LET w == Ref(Len(heap) + 1)
                    out == ArrayFieldCall(Arrays[i], TRUE, w, Append(heap, ArrOf(elems)))
                IN  Done(Call("aset", Arrays[i], w, NoArgs, out, NoResult), out)
            \/ LET out == ArrayFieldCall(Arrays[i], TRUE, Null, heap)
               IN  Done(Call("aset", Arrays[i], Null, NoArgs, out, NoResult), out)
        /\ nops' = nops + 1

\* a() on an array field
ArrayGet ==
    LET Arrays == ArrayFields(fields) IN
        /\ built = "ok" /\ Fresh
        /\ \E i \in 1..Len(Arrays) :
            LET out == ArrayFieldCall(Arrays[i], FALSE, Undef, heap)
            IN  Done(Call("aget", Arrays[i], Undef, NoArgs, out, NoResult), out)
        /\ UNCHANGED nops

Push ==
    LET Arrays == ArrayFields(fields) IN
        /\ built = "ok" /\ Fresh /\ nops < MaxOps
        /\ \E i \in 1..Len(Arrays) : \E items \in ItemInputs :
            /\ Len(heap[Arrays[i].v].a) + Len(items) <= MaxLen
            /\ LET out == fieldPush(Arrays[i], items, heap)
               IN  Done(Call("push", Arrays[i], Undef, [NoArgs EXCEPT !.items = items],
                             out, NoResult), out)
        /\ nops' = nops + 1

Unshift ==
    LET Arrays == ArrayFields(fields) IN
        /\ built = "ok" /\ Fresh /\ nops < MaxOps
        /\ \E i \in 1..Len(Arrays) : \E items \in ItemInputs :
            /\ Len(heap[Arrays[i].v].a) + Len(items) <= MaxLen
            /\ LET out == fieldUnshift(Arrays[i], items, heap)
               IN  Done(Call("unshift", Arrays[i], Undef, [NoArgs EXCEPT !.items = items],
                             out, NoResult), out)
        /\ nops' = nops + 1

Pop ==
    LET Arrays == ArrayFields(fields) IN
        /\ built = "ok" /\ Fresh /\ nops < MaxOps
        /\ \E i \in 1..Len(Arrays) :
            LET out == fieldPop(Arrays[i], heap)
            IN  Done(Call("pop", Arrays[i], Undef, NoArgs, out, NoResult), out)
        /\ nops' = nops + 1

Shift ==
    LET Arrays == ArrayFields(fields) IN
        /\ built = "ok" /\ Fresh /\ nops < MaxOps
        /\ \E i \in 1..Len(Arrays) :
            LET out == fieldShift(Arrays[i], heap)
            IN  Done(Call("shift", Arrays[i], Undef, NoArgs, out, NoResult), out)
        /\ nops' = nops + 1

\* a.splice(from), a.splice(from, count), a.splice(from, count, ...items)
Splice ==
    LET Arrays == ArrayFields(fields) IN
        /\ built = "ok" /\ Fresh /\ nops < MaxOps
        /\ \E i \in 1..Len(Arrays) : \E args \in SpliceInputs :
            /\ Len(heap[Arrays[i].v].a) + Len(args.items) <= MaxLen
            /\ LET out == fieldSplice(Arrays[i], args.from, args.hasCount, args.count,
                                      args.items, heap)
               IN  Done(Call("splice", Arrays[i], Undef, args, out, NoResult), out)
        /\ nops' = nops + 1

\* a.map(cb), a.forEach(cb), for (const f of a)
Enumerate ==
    LET Arrays == ArrayFields(fields) IN
        /\ built = "ok" /\ Fresh
        /\ \E i \in 1..Len(Arrays) :
            LET out == Outcome(heap, Undef, fieldMap(Arrays[i]), <<>>)
            IN  Done(Call("map", Arrays[i], Undef, NoArgs, out, NoResult), out)
        /\ UNCHANGED nops

\* getFormData(fields)
GetFormData ==
    /\ built = "ok" /\ Fresh
    /\ LET out == Outcome(heap, Undef, <<>>, <<>>)
       IN  Done(Call("getFormData", NoField, Undef, NoArgs, out,
                     getFormData(fields, heap)), out)
    /\ UNCHANGED nops

\* The next render: createForm(scheme)(data, setData) on the caller's data.
Rebuild ==
    /\ built = "ok" /\ Fresh /\ nops < MaxOps
    /\ LET r == createForm(scheme, data, heap)
       IN  /\ heap' = r.h
           /\ heap0' = r.h
           /\ fields' = r.f
           /\ built' = IF r.err THEN r.msg ELSE "ok"
           /\ last' = Call("createForm", NoField, Undef, NoArgs,
                           Outcome(r.h, Undef, <<>>, <<>>), NoResult)
    /\ nops' = nops + 1
    /\ UNCHANGED <<scheme, data>>

Next ==
    \/ ScalarSet
    \/ ScalarGet
    \/ ArraySet
    \/ ArrayGet
    \/ Push
    \/ Unshift
    \/ Pop
    \/ Shift
    \/ Splice
    \/ Enumerate
    \/ GetFormData
    \/ Rebuild

Spec == Init /\ [][Next]_vars

NextBuild == GetFormData

SpecBuild == InitBuild /\ [][NextBuild]_vars

----------------------------------------------------------------------------
(* Properties *)

Helpers == {"push", "pop", "shift", "unshift", "splice"}

\* The slot a field's setter writes first: its place in its parent.
OwnSlot(field, h) == ReadSlot(h, field.set[1].r, field.set[1].seg)

\* The last call read scalar field f right after a call f(x) on the same tree.
ReadAfterWrite ==
    /\ last.op = "get"
    /\ last.before.op = "set"
    /\ last.before.path = last.f.path

(* C1, as stated: after f(x) on a scalar field, an immediate f() on the     *)
(* same field of the same tree returns x.                                   *)
C1_ReadReturnsWritten == ReadAfterWrite => last.ret = last.before.arg

(* C1, amended: f(x) returns x and stores x in the backing value at the     *)
(* field's place; f() on the same tree returns the value stored when the    *)
(* tree was built, whatever was written since.                              *)
C1_ReadReturnsBuildValue ==
    /\ last.op = "set" =>
        /\ last.ret = last.arg
        /\ OwnSlot(last.f, heap) = last.arg
    /\ last.op = "get" =>
        last.ret = StoredValue(last.f.type, OwnSlot(last.f, heap0))

\* f() right after f(x) returned something other than x.
C1_Witness == ReadAfterWrite /\ last.ret # last.before.arg

\* What Array.prototype's method of the same name does to array a with
\* the arguments the helper was called with.
Standard(op, a, args) ==
    CASE op = "push" -> ArrayPush(a, args.items)
      [] op = "unshift" -> ArrayUnshift(a, args.items)
      [] op = "pop" -> ArrayPop(a)
      [] op = "shift" -> ArrayShift(a)
      [] op = "splice" ->
            LET o == ArraySplice(a, args.from, args.hasCount, args.count, args.items)
            IN  [a |-> o.a, ret |-> Undef, rets |-> o.rets]

\* The last call, a mutation helper, did what the standard mutation does:
\* mutated v in place, called the setter once with v, returned its result.
HelperIsStandard ==
    LET v == last.f.v
        std == Standard(last.op, last.pre[v].a, last.args)
    IN  /\ heap[v].a = std.a
        /\ last.calls = <<Ref(last.f.set[Len(last.f.set)].r)>>
        /\ OwnSlot(last.f, heap) = Ref(v)
        /\ last.ret = std.ret
        /\ last.op = "splice" => last.rets = std.rets
        /\ ArrayFieldValue(last.f, heap) = Ref(v)

(* C2: push, pop, shift, unshift and splice apply the standard mutation to  *)
(* the backing array in place, invoke the setter once with that array and   *)
(* return what the standard mutation returns; a() then returns the mutated  *)
(* array.                                                                   *)
C2_HelpersAreStandard == last.op \in Helpers => HelperIsStandard

\* The same, for every call but splice(from) with no count.
C2_HelpersAreStandardGivenCount ==
    (last.op \in Helpers /\ (last.op = "splice" => last.args.hasCount))
        => HelperIsStandard

\* tags ['a', 'b'], push('c') returned 3 and the array is ['a', 'b', 'c'].
C2_PushExample ==
    /\ last.op = "push"
    /\ last.pre[last.f.v].a = <<Str("a"), Str("b")>>
    /\ last.args.items = <<Str("c")>>
    /\ last.ret = Num(3)
    /\ heap[last.f.v].a = <<Str("a"), Str("b"), Str("c")>>

\* The stored value of a scalar field is not acceptable for its type.
Unacceptable(field) ==
    CASE field.type \in {"string", "boolean"} -> field.value = Null
      [] field.type = "number" -> ~isNumberString(field.value)
      [] field.type = "date" -> ~isDate(field.value)
      [] field.type = "file" -> ~isFile(field.value)

\* The place of key in a sequence of keys.
KeyIndex(keys, key) == CHOOSE i \in 1..Len(keys) : keys[i] = key

\* The value at a path of the plain data getFormData returned.
RECURSIVE PlainAt(_, _)
PlainAt(val, path) ==
    IF Len(path) = 0 THEN val
    ELSE IF IsIdx(path[1]) THEN PlainAt(val.vals[path[1].idx + 1], Tail(path))
    ELSE PlainAt(val.vals[KeyIndex(val.keys, path[1].key)], Tail(path))

Extracted == last.op = "getFormData"

\* The scalar field getFormData read last.
LastVisited(res) == res.visited[Len(res.visited)]

(* C3: getFormData raises a validation error naming the dotted path of a    *)
(* scalar field it reaches whose stored value is not acceptable for its     *)
(* type if and only if that field is required; for a nullable field it      *)
(* yields null for the field and raises nothing.                            *)
C3_RequiredPolicy ==
    Extracted =>
        LET res == last.res
            fs == ScalarFields(fields)
        IN  /\ \A i \in 1..Len(fs) :
                (fs[i].path \in SeqRange(res.visited) /\ Unacceptable(fs[i])) =>
                    IF fs[i].required
                    THEN /\ res.err
                         /\ res.error.name = "is required"
                         /\ res.error.path = JoinPath(fs[i].path)
                         /\ res.error.got = fs[i].value
                    ELSE /\ ~(res.err /\ LastVisited(res) = fs[i].path)
                         /\ ~res.err => PlainAt(res.val, fs[i].path) = Null
            /\ res.err =>
                \E i \in 1..Len(fs) :
                    /\ fs[i].path = LastVisited(res)
                    /\ fs[i].required
                    /\ Unacceptable(fs[i])
            \* the dotted paths of three known forms
            /\ (scheme = LeafScheme("date") /\ res.err) => res.error.path = "x"
            /\ (scheme = OrderScheme /\ data = Null) => res.error.path = "addr.street"
            /\ (scheme = FilesScheme /\ data = Ref(8) /\ res.err) =>
                    res.error.path = "tags.0.1"

\* A required field nested in arrays failed, after nullable and valid fields.
C3_Witness ==
    /\ Extracted
    /\ last.res.err
    /\ last.res.error.path = "tags.0.1"

\* Value v of heap h is a fully populated value of scheme type, with no
\* keys but the scheme's.
RECURSIVE WellTyped(_, _, _)
WellTyped(type, h, v) ==
    CASE type.t = "tag" ->
            CASE type.tag \in {"string", "string?"} -> isString(v)
              [] type.tag \in {"number", "number?"} -> isNumber(v)
              [] type.tag \in {"boolean", "boolean?"} -> v.k = "boolean"
              [] type.tag \in {"date", "date?"} -> isDate(v)
              [] type.tag \in {"file", "file?"} -> isFile(v)
              [] OTHER -> FALSE
      [] type.t = "array" ->
            /\ IsArray(h, v)
            /\ Len(type.sub) = 1
            /\ \A i \in 1..Len(h[v.n].a) : WellTyped(type.sub[1], h, h[v.n].a[i])
      [] type.t = "object" ->
            /\ IsObject(v)
            /\ h[v.n].kind = "obj"
            /\ DOMAIN h[v.n].o = SeqRange(type.keys)
            /\ \A i \in 1..Len(type.keys) :
                WellTyped(type.sub[i], h, h[v.n].o[type.keys[i]])
      [] OTHER -> FALSE

\* Plain data val is deep-equal to value v of heap h.
RECURSIVE DeepEqual(_, _, _)
DeepEqual(val, h, v) ==
    CASE val.k = "object" ->
            /\ IsObject(v)
            /\ h[v.n].kind = "obj"
            /\ DOMAIN h[v.n].o = SeqRange(val.keys)
            /\ \A i \in 1..Len(val.keys) :
                DeepEqual(val.vals[i], h, h[v.n].o[val.keys[i]])
      [] val.k = "array" ->
            /\ IsArray(h, v)
            /\ Len(h[v.n].a) = Len(val.vals)
            /\ \A i \in 1..Len(val.vals) : DeepEqual(val.vals[i], h, h[v.n].a[i])
      [] OTHER -> val = v

(* C4: for a fully populated, well-typed backing value V of scheme S,       *)
(* getFormData(createForm(S)(V)) raises nothing and is deep-equal to V,     *)
(* number leaves being numbers.                                             *)
C4_RoundTrip ==
    (Extracted /\ WellTyped(scheme, last.pre, data)) =>
        /\ ~last.res.err
        /\ DeepEqual(last.res.val, last.pre, data)

\* An order was extracted: nested object, array of objects, numbers, dates.
C4_Witness ==
    /\ Extracted
    /\ scheme = OrderScheme
    /\ WellTyped(scheme, last.pre, data)
    /\ PlainAt(last.res.val, <<Key("items"), Idx(0), Key("id")>>) = Num(3)

\* The kinds of raw value each scalar type derives a stored value from.
AcceptedKinds(type) ==
    CASE type = "string" -> {"string", "number", "date"}
      [] type = "number" -> {"number", "string"}
      [] type = "boolean" -> {"boolean", "Boolean"}
      [] type = "date" -> {"date", "number", "string"}
      [] type = "file" -> {"file"}

\* Field f is what scheme type builds from value v of heap h, whatever the
\* shape of v: null at a mismatched leaf, an empty array field for what is
\* no array, the sub-fields of an empty object for what is no object.
RECURSIVE Degrades(_, _, _, _)
Degrades(type, f, h, v) ==
    CASE type.t = "tag" ->
            /\ f.type \in {"string", "number", "boolean", "date", "file"}
            /\ type.tag \in {f.type, f.type \o "?"}
            /\ f.required = (type.tag = f.type)
            /\ v.k \notin AcceptedKinds(f.type) => f.value = Null
      [] type.t = "array" ->
            /\ f.type = "array"
            /\ IF IsArray(h, v)
               THEN /\ f.v = v.n
                    /\ Len(f.fields) = Len(h[v.n].a)
                    /\ \A i \in 1..Len(f.fields) :
                        Degrades(type.sub[1], f.fields[i], h, h[v.n].a[i])
               ELSE /\ f.fields = <<>>
                    /\ h[f.v] = NewArr
      [] type.t = "object" ->
            /\ f.type = "object"
            /\ f.keys = type.keys
            /\ \A i \in 1..Len(type.keys) :
                Degrades(type.sub[i], f.sub[i], h,
                         IF IsObject(v) THEN ReadKey(h, v.n, type.keys[i]) ELSE Undef)

(* C5: building never raises for a well-formed scheme, whatever the shape   *)
(* of the backing value, which degrades to null and empty defaults; it      *)
(* raises 'unexpected field type' only for a scheme holding a value outside *)
(* the vocabulary.                                                          *)
C5_BuildTotal ==
    /\ WellFormed(scheme) =>
        /\ built = "ok"
        /\ Degrades(scheme, fields, heap0, data)
    /\ built # "ok" =>
        /\ built = "unexpected field type"
        /\ ~WellFormed(scheme)

\* An order was built from a value with the wrong shape at every key.
C5_Witness ==
    /\ scheme = OrderScheme
    /\ data = Ref(13)
    /\ built = "ok"
    /\ last.op = "createForm"

\* The first i elements of q.
Prefix(q, i) == SubSeq(q, 1, i)

\* The paths of a sequence of fields.
Paths(fs) == [i \in 1..Len(fs) |-> fs[i].path]

(* C6: when the tree holds invalid required scalar fields, getFormData      *)
(* raises one validation error, for the first of them in depth-first order; *)
(* the fields after it are not read and no partial result is returned.      *)
C6_FailFast ==
    Extracted =>
        LET res == last.res
            fs == ScalarFields(fields)
            bad == {i \in 1..Len(fs) : fs[i].required /\ Unacceptable(fs[i])}
        IN  IF bad = {}
            THEN /\ ~res.err
                 /\ res.visited = Paths(fs)
            ELSE LET first == CHOOSE i \in bad : \A j \in bad : i <= j
                 IN  /\ res.err
                     /\ res.error.name = "is required"
                     /\ res.error.path = JoinPath(fs[first].path)
                     /\ res.visited = Prefix(Paths(fs), first)
                     /\ res.val = Undef

\* Extraction stopped at an invalid field with valid fields before it and
\* an invalid required field after it.
C6_Witness ==
    /\ Extracted
    /\ last.res.err
    /\ LET fs == ScalarFields(fields)
           n == Len(last.res.visited)
       IN  /\ n > 1
           /\ \E j \in (n + 1)..Len(fs) : fs[j].required /\ Unacceptable(fs[j])

\* Sub-field f of an array field at path has path followed by index: it is
\* the path of a scalar or array sub-field, and the path its own sub-fields'
\* paths extend when it is an object.
AtIndex(f, path, index) ==
    CASE f.type = "hole" -> TRUE
      [] f.type = "object" ->
            \A i \in 1..Len(f.sub) :
                f.sub[i].type # "object" =>
                    Prefix(f.sub[i].path, Len(path) + 1) = Append(path, Idx(index))
      [] OTHER -> f.path = Append(path, Idx(index))

\* The sub-fields array field a enumerates are one per element of elems, in
\* index order, the i-th at path a.path followed by i.
OnePerElement(a, elems) ==
    /\ Len(a.fields) = Len(elems)
    /\ \A i \in 1..Len(a.fields) :
        /\ AtIndex(a.fields[i], a.path, i - 1)
        /\ a.fields[i].type = "hole" <=> elems[i] = Hole
    /\ LET m == fieldMap(a)
       IN  \A i \in 1..Len(m) :
            /\ m[i].field = a.fields[m[i].index + 1]
            /\ i > 1 => m[i - 1].index < m[i].index

(* C7, as stated: whatever push, pop, shift, unshift and splice calls were  *)
(* made, the sub-fields an array field enumerates are one per element of    *)
(* the array its zero-argument call returns, in index order, the i-th at    *)
(* the field's path followed by i.                                          *)
C7_SubFieldsFollowArray ==
    built = "ok" =>
        LET as == ArrayFields(fields)
        IN  \A i \in 1..Len(as) :
                OnePerElement(as[i], heap[ArrayFieldValue(as[i], heap).n].a)

(* C7, amended: the sub-fields an array field enumerates are one per        *)
(* element the array held when the tree was built, in index order, the i-th *)
(* at the field's path followed by i; the helpers do not change them.       *)
C7_SubFieldsFollowBuild ==
    built = "ok" =>
        LET as == ArrayFields(fields)
        IN  /\ \A i \in 1..Len(as) : OnePerElement(as[i], heap0[as[i].v].a)
            /\ last.op = "map" => last.rets = fieldMap(last.f)

\* After a helper changed the length of its array, the field enumerates as
\* many sub-fields as before.
C7_Witness ==
    /\ last.op = "map"
    /\ last.before.op \in Helpers
    /\ last.before.path = last.f.path
    /\ Len(last.rets) # Len(heap[last.f.v].a)
    /\ Len(last.rets) = Len(heap0[last.f.v].a)

\* Container r is in h2 what it is in h1, but for the slot seg.
SameButSlot(h1, h2, r, seg) ==
    IF IsIdx(seg)
    THEN /\ h1[r].o = h2[r].o
         /\ h1[r].kind = h2[r].kind
         /\ \A j \in 0..Max(Len(h1[r].a), Len(h2[r].a)) :
                j # seg.idx => ReadIdx(h1, r, j) = ReadIdx(h2, r, j)
         /\ Len(h2[r].a) = Max(Len(h1[r].a), seg.idx + 1)
    ELSE /\ h1[r].a = h2[r].a
         /\ h1[r].kind = h2[r].kind
         /\ \A key \in (DOMAIN h1[r].o \cup DOMAIN h2[r].o) \ {seg.key} :
                ReadKey(h1, r, key) = ReadKey(h2, r, key)

\* The containers of a setter chain.
ChainRefs(set) == {set[k].r : k \in 1..Len(set)}

\* The last call f(x) changed no slot but those of f's setter chain.
WroteChainOnly ==
    LET set == last.f.set
    IN  /\ Len(heap) = Len(last.pre)
        /\ \A r \in 1..Len(heap) :
            r \notin ChainRefs(set) => heap[r] = last.pre[r]
        /\ \A k \in 1..Len(set) :
            SameButSlot(last.pre, heap, set[k].r, set[k].seg)

\* The last call invoked setData once, with the root backing object.
NotifiedRoot ==
    /\ last.calls = <<Ref(last.f.set[Len(last.f.set)].r)>>
    /\ data = last.calls[1]

(* C8, as stated: f(x) on a scalar leaf returns x, writes x at the leaf's   *)
(* path of the backing value in place, into the caller's own objects and    *)
(* arrays where the backing value has them, leaves every other key and      *)
(* index unchanged and invokes the root onChange once with the root         *)
(* backing object; f() invokes no setter and changes nothing.               *)
C8_WritesInPlace ==
    /\ last.op = "set" =>
        LET set == last.f.set
        IN  /\ last.ret = last.arg
            /\ ReadSlot(heap, set[1].r, set[1].seg) = last.arg
            /\ \A k \in 2..Len(set) :
                LET old == ReadSlot(last.pre, set[k].r, set[k].seg)
                IN  IsObject(old) /\ (IsIdx(set[k - 1].seg) => IsArray(last.pre, old))
                        => ReadSlot(heap, set[k].r, set[k].seg) = old
            /\ WroteChainOnly
            /\ NotifiedRoot
    /\ last.op = "get" => (last.calls = <<>> /\ heap = last.pre)

(* C8, amended: f(x) on a scalar leaf returns x, writes x into the          *)
(* container the field captured when the tree was built, at the leaf's key  *)
(* or build-time index, and assigns each captured container anew to its     *)
(* place in the captured container above it; no other key or index of any   *)
(* object or array changes, and the root onChange is invoked once with the  *)
(* root backing object; f() invokes no setter and changes nothing.          *)
C8_WritesCaptured ==
    /\ last.op = "set" =>
        LET set == last.f.set
        IN  /\ last.ret = last.arg
            /\ ReadSlot(heap, set[1].r, set[1].seg) = last.arg
            /\ set[1].seg = last.f.path[Len(last.f.path)]
            /\ \A k \in 2..Len(set) :
                ReadSlot(heap, set[k].r, set[k].seg) = Ref(set[k - 1].r)
            /\ WroteChainOnly
            /\ NotifiedRoot
    /\ last.op = "get" => (last.calls = <<>> /\ heap = last.pre)

\* A write put a captured container back where the backing value held
\* another object or array.
C8_Witness ==
    /\ last.op = "set"
    /\ \E k \in 2..Len(last.f.set) :
        LET old == ReadSlot(last.pre, last.f.set[k].r, last.f.set[k].seg)
        IN  IsObject(old) /\ old # Ref(last.f.set[k - 1].r)

\* The last call was a one-argument call on a sub-field built for an
\* element of an array.
ElementWrite ==
    /\ last.op \in {"set", "aset"}
    /\ IsIdx(last.f.path[Len(last.f.path)])

(* C9: a one-argument call on the sub-field built for index i of an array   *)
(* writes the backing array at that build-time index, whatever helpers were *)
(* called since: index i then holds the written value, every other index    *)
(* is unchanged, and the array grows to length i + 1 when i is at or beyond *)
(* its length.                                                              *)
C9_StaleIndexWrite ==
    ElementWrite =>
        LET i == last.f.path[Len(last.f.path)].idx
            v == last.f.set[1].r
            old == last.pre[v].a
            new == heap[v].a
        IN  /\ last.f.set[1].seg = Idx(i)
            /\ ReadIdx(heap, v, i) = last.arg
            /\ \A j \in 0..Max(Len(old), Len(new)) :
                j # i => ReadIdx(heap, v, j) = ReadIdx(last.pre, v, j)
            /\ Len(new) = IF i < Len(old) THEN Len(old) ELSE i + 1

\* After shift(), a write through the sub-field built for index 0 replaced
\* the element that was at index 1 when the tree was built.
C9_Witness ==
    /\ ElementWrite
    /\ last.op = "set"
    /\ LET v == last.f.set[1].r
       IN  /\ last.f.path[Len(last.f.path)].idx = 0
           /\ Len(heap0[v].a) = 2
           /\ last.pre[v].a = Tail(heap0[v].a)
           /\ heap[v].a = <<last.arg>>

\* A write through a sub-field whose index is beyond the end of the array.
C9_GrowWitness ==
    /\ ElementWrite
    /\ last.f.path[Len(last.f.path)].idx > Len(last.pre[last.f.set[1].r].a)

(* C10: a(w) on an array field hands w to the setter, so that the parent    *)
(* holds w, and returns w, but the field keeps the array v it captured when *)
(* built: a() still returns v, and a later helper or element write mutates  *)
(* v and invokes the setter with v, which puts v back under the parent's    *)
(* key and drops w.                                                         *)
C10_ReplacementNotRebound ==
    /\ last.op = "aset" =>
        /\ last.ret = last.arg
        /\ OwnSlot(last.f, heap) = last.arg
        /\ heap[last.f.v] = last.pre[last.f.v]
        /\ ArrayFieldValue(last.f, heap) = Ref(last.f.v)
    /\ last.op = "aget" =>
        /\ last.ret = Ref(last.f.v)
        /\ last.before.op = "aset" /\ last.before.path = last.f.path
            => OwnSlot(last.f, heap) = last.before.arg
    /\ last.op \in Helpers =>
        LET w == OwnSlot(last.f, last.pre)
        IN  /\ OwnSlot(last.f, heap) = Ref(last.f.v)
            /\ last.calls = <<Ref(last.f.set[Len(last.f.set)].r)>>
            /\ last.op = "push" =>
                    heap[last.f.v].a = last.pre[last.f.v].a \o last.args.items
            /\ (IsObject(w) /\ w # Ref(last.f.v)) => heap[w.n] = last.pre[w.n]
    /\ (last.op = "set" /\ IsIdx(last.f.set[1].seg)) =>
        LET v == last.f.set[1].r
            w == ReadSlot(last.pre, last.f.set[2].r, last.f.set[2].seg)
        IN  /\ ReadSlot(heap, last.f.set[2].r, last.f.set[2].seg) = Ref(v)
            /\ ReadIdx(heap, v, last.f.set[1].seg.idx) = last.arg
            /\ (IsObject(w) /\ w # Ref(v)) => heap[w.n] = last.pre[w.n]

\* After a(w), a() returned the array captured at build, not w.
C10_Witness ==
    /\ last.op = "aget"
    /\ last.before.op = "aset"
    /\ last.before.path = last.f.path
    /\ IsObject(last.before.arg)
    /\ last.ret # last.before.arg
    /\ OwnSlot(last.f, heap) = last.before.arg

\* After a(w), a helper put the captured array back in place of w.
C10_HelperWitness ==
    /\ last.op \in Helpers
    /\ IsObject(OwnSlot(last.f, last.pre))
    /\ OwnSlot(last.f, last.pre) # Ref(last.f.v)
    /\ OwnSlot(last.f, heap) = Ref(last.f.v)

====
